---- MODULE Spec2Model ----
(***************************************************************************)
(* The WhatsApp Web HTTP service: one Node process that owns a single      *)
(* whatsapp-web.js client and translates HTTP requests into calls on it.   *)
(* The repository holds two versions of the server file, src/index.js and  *)
(* src/unnamed/part_000; `program` says which one the process runs.        *)
(*                                                                         *)
(* A handler runs synchronously up to its next `await`; each action below  *)
(* is one such run: the arrival of a request (auth middleware, gates, the  *)
(* first call) or the resumption of a handler when the call it awaits      *)
(* settles.  The backend (whatsapp-web.js, axios, the timer) is the        *)
(* environment: every call it is given resolves or rejects as it likes.    *)
(***************************************************************************)
EXTENDS Integers, Sequences, FiniteSets, TLC

\* ------------------------------------------------------------------ bounds
\* typing_duration values tried by callers are -1 .. MaxDuration
MaxDuration == 1

\* ------------------------------------------------------- program constants
\* `typing_duration || 2000`
DefaultTypingMs == 2000

\* ---------------------------------------------------------- value domains
Undefined == "<undefined>"      \* a field, header or parameter that is absent

Programs == {"index.js", "part_000"}

\* values of the X-API-Key header, the api_key parameter and process.env.API_KEY
KeyVals == {Undefined, "", "secret", "wrong"}
EnvKeys == {Undefined, "", "secret"}

ChatIds    == {Undefined, "", "c1"}
Texts      == {Undefined, "", "hello"}
Urls       == {Undefined, "u"}
MessageIds == {Undefined, "false_111@c.us_ABC"}
Flags      == {Undefined, "false", "true"}
Sessions   == {Undefined, "s1"}
\* typing_duration: <<>> when absent, <<n>> for the number n
Durations  == {<<>>} \cup {<<n>> : n \in -1..MaxDuration}

\* error messages the backend may reject a call with
ErrMsgs == {"e1", "e2"}

\* what the routes of the two files are
Routes(p) ==
    IF p = "index.js"
    THEN {"/health", "/api/sendMedia", "/api/forwardMessage",
          "/startTyping", "/stopTyping", "/api/sendMessage"}
    ELSE {"/health", "/api/sendMedia", "/api/forwardMessage",
          "/startTyping", "/stopTyping", "/sendMedia", "/sendMessage"}

\* the calls a handler makes on its collaborators
BackendOps == {"getChatById", "sendStateTyping", "clearState", "sendMessage",
               "getMessageById", "forward", "fromUrl", "axiosGet"}

\* JavaScript truthiness of a string-valued field
Falsy(v) == v = Undefined \/ v = ""
\* ... of a boolean-valued field
Truthy(f) == f = "true"
\* ... of a number-valued field
TruthyNum(d) == d # <<>> /\ d[1] # 0

\* a message object of the backend; NoMsg stands for null / undefined
NoMsg == [id |-> Undefined, timestamp |-> Undefined, type |-> Undefined]
Msgs  == {[id |-> "m1", timestamp |-> "t1", type |-> "chat"],
          [id |-> "m2", timestamp |-> "t2", type |-> "image"]}

\* how an awaited call settles
Outcome(ok, err, msg) == [ok |-> ok, err |-> err, msg |-> msg]
Resolved       == Outcome(TRUE, Undefined, NoMsg)
Rejections     == {Outcome(FALSE, e, NoMsg) : e \in ErrMsgs}
ResolvedWith   == {Outcome(TRUE, Undefined, m) : m \in Msgs}

Outcomes(op) ==
    CASE op = "setTimeout"     -> {Resolved}
      [] op = "sendMessage"    -> ResolvedWith \cup Rejections
      [] op = "getMessageById" -> ResolvedWith \cup {Resolved} \cup Rejections
      [] OTHER                 -> {Resolved} \cup Rejections

\* ------------------------------------------------------------ HTTP objects
\* the response object: status code and JSON body (absent keys Undefined)
\* message texts are token sequences: <<>> absent, <<t>> the text t
NoRes == [status |-> 0, error |-> Undefined, message |-> <<>>,
          success |-> FALSE, messageId |-> Undefined, timestamp |-> Undefined,
          chatId |-> Undefined, originalMessageId |-> Undefined,
          targetChatId |-> Undefined, messageType |-> Undefined,
          details |-> <<>>, session |-> Undefined,
          health |-> Undefined, whatsapp |-> Undefined]

\* a request slot nobody uses yet.  Beside the request's inputs and the
\* handler's locals it keeps a history of the request: calls, the calls made
\* in order; errs, how each settled call ended (Undefined: resolved, else the
\* rejection's message); got, the message the backend last returned to it
\* (from sendMessage or getMessageById); atReadiness, atClient and atReadySeen, the service state and
\* lifecycle history it met on arrival
Idle == [path |-> Undefined, hdr |-> Undefined, qry |-> Undefined,
         chatId |-> Undefined, message |-> Undefined,
         hasFile |-> FALSE, fileUrl |-> Undefined,
         messageId |-> Undefined, show_typing |-> Undefined,
         typing_duration |-> <<>>, session |-> Undefined,
         pc |-> "idle", chat |-> "null", waitTime |-> <<>>,
         msg |-> NoMsg, mediaError |-> Undefined,
         calls |-> <<>>, errs |-> <<>>, got |-> NoMsg,
         atReadiness |-> Undefined, atClient |-> Undefined,
         atReadySeen |-> FALSE,
         nresp |-> 0, res |-> NoRes]

VARIABLES
    program,         \* the server file the process runs
    API_KEY,         \* process.env.API_KEY
    proc,            \* "boot", "running" or "exited"
    exitCode,        \* <<>> while the process lives, else <<code>>
    listening,       \* app.listen has been called
    clients,         \* number of `new Client(...)` constructions
    initCalls,       \* number of client.initialize() calls
    whatsappClient,  \* the module-level handle: "null" or "client"
    readiness,       \* history: what the lifecycle notifications so far amount to
    readySeen,       \* history: a ready notification has been delivered
    req,             \* the requests, by slot
    events           \* history: arrivals and backend calls, in the order made

vars == <<program, API_KEY, proc, exitCode, listening, clients, initCalls,
          whatsappClient, readiness, readySeen, req, events>>

\* ------------------------------------------------------ response helpers
\* the handler invokes `op` and suspends at the await labelled `pc`
CallAt(q, op, pc) == [q EXCEPT !.calls = Append(@, op), !.pc = pc]
Call(q, op) == CallAt(q, op, op)

\* res.status(status).json(body); the handler is over
Json(q, status, body) ==
    [q EXCEPT !.nresp = @ + 1, !.res = [body EXCEPT !.status = status],
              !.pc = "done"]

ErrorBody(e)   == [NoRes EXCEPT !.error = e]
FailBody(e, m) == [NoRes EXCEPT !.error = e, !.message = m]
\* mutant: the success body names a fixed message, not the one returned
SentBody_FirstMessage(m) ==
    [NoRes EXCEPT !.success = TRUE, !.messageId = "m1", !.timestamp = "t1"]

SentBody(m)    == [NoRes EXCEPT !.success = TRUE, !.messageId = m.id,
                                !.timestamp = m.timestamp]
NotReady       == ErrorBody("WhatsApp client not ready")

\* `session || 'default'`
SessionOf(q) == IF Falsy(q.session) THEN "default" ELSE q.session

\* mutant: the clear no longer depends on show_typing and chat
ClearWanted_Always(q) == TRUE

\* `show_typing && chat`
ClearWanted(q) == Truthy(q.show_typing) /\ q.chat # "null"

\* ------------------------------------------------------ authenticateAPI
ProvidedKey(q) == IF Falsy(q.hdr) THEN q.qry ELSE q.hdr

\* mutant: any non-empty key passes
AuthPasses_AnyKey(q, key) == ~Falsy(ProvidedKey(q))

\* mutant: the header and the query key are both tried
AuthPasses_EitherKey(q, key) ==
    (~Falsy(q.hdr) /\ q.hdr = key) \/ (~Falsy(q.qry) /\ q.qry = key)

AuthPasses(q, key) == ~(Falsy(ProvidedKey(q)) \/ ProvidedKey(q) # key)

Unauthorized(q) ==
    Json(q, 401, FailBody("Unauthorized", <<"Valid API key required">>))

\* ---------------------------------------- POST /api/sendMessage, /sendMessage
WaitTimeOrDefault(q) ==
    IF TruthyNum(q.typing_duration) THEN q.typing_duration
    ELSE <<DefaultTypingMs>>

SendText_TypingWanted(q) == Truthy(q.show_typing)

\* mutant: the message check is lost
SendText_Validate_NoMessage(q) ==
    IF Falsy(q.chatId) THEN "chatId is required" ELSE Undefined

SendText_Validate(q) ==
    IF Falsy(q.chatId) THEN "chatId is required"
    ELSE IF Falsy(q.message) THEN "message is required"
    ELSE Undefined

\* part_000 adds `session` to the success body, index.js does not
SendText_Ok(q, m) ==
    IF q.path = "/sendMessage"
    THEN [SentBody(m) EXCEPT !.session = SessionOf(q)]
    ELSE SentBody(m)

\* mutant: validation runs before the readiness check
SendText_Start_ValidateFirst(q, wc) ==
    IF SendText_Validate(q) # Undefined
    THEN Json(q, 400, ErrorBody(SendText_Validate(q)))
    ELSE IF wc = "null" THEN Json(q, 503, NotReady)
    ELSE IF SendText_TypingWanted(q) THEN Call(q, "getChatById")
    ELSE Call(q, "sendMessage")

SendText_Start(q, wc) ==
    IF wc = "null" THEN Json(q, 503, NotReady)
    ELSE IF SendText_Validate(q) # Undefined
    THEN Json(q, 400, ErrorBody(SendText_Validate(q)))
    ELSE IF SendText_TypingWanted(q) THEN Call(q, "getChatById")
    ELSE Call(q, "sendMessage")

\* mutant: the catch block answers with a text of its own
SendText_Catch_Generic(q, o) ==
    Json(q, 500, FailBody("Failed to send message", <<"Internal server error">>))

SendText_Catch(q, o) ==
    Json(q, 500, FailBody("Failed to send message", <<o.err>>))

\* mutant: a clearState that fails after the send is swallowed
SendText_Resume_ClearBestEffort(q, o) ==
    IF ~o.ok /\ q.pc = "clearState" THEN Json(q, 200, SendText_Ok(q, q.msg))
    ELSE IF ~o.ok THEN SendText_Catch(q, o)
    ELSE CASE q.pc = "getChatById" ->
                Call([q EXCEPT !.chat = "chat"], "sendStateTyping")
           [] q.pc = "sendStateTyping" ->
                Call([q EXCEPT !.waitTime = WaitTimeOrDefault(q)], "setTimeout")
           [] q.pc = "setTimeout" -> Call(q, "sendMessage")
           [] q.pc = "sendMessage" ->
                IF ClearWanted(q)
                THEN Call([q EXCEPT !.msg = o.msg], "clearState")
                ELSE Json([q EXCEPT !.msg = o.msg], 200, SendText_Ok(q, o.msg))
           [] q.pc = "clearState" -> Json(q, 200, SendText_Ok(q, q.msg))

SendText_Resume(q, o) ==
    IF ~o.ok THEN SendText_Catch(q, o)
    ELSE CASE q.pc = "getChatById" ->
                Call([q EXCEPT !.chat = "chat"], "sendStateTyping")
           [] q.pc = "sendStateTyping" ->
                Call([q EXCEPT !.waitTime = WaitTimeOrDefault(q)], "setTimeout")
           [] q.pc = "setTimeout" -> Call(q, "sendMessage")
           [] q.pc = "sendMessage" ->
                IF ClearWanted(q)
                THEN Call([q EXCEPT !.msg = o.msg], "clearState")
                ELSE Json([q EXCEPT !.msg = o.msg], 200, SendText_Ok(q, o.msg))
           [] q.pc = "clearState" -> Json(q, 200, SendText_Ok(q, q.msg))

\* ------------------------------------------------------------ sendMedia
\* `!file || !file.url`
Media_Validate(q) ==
    IF Falsy(q.chatId) THEN "chatId is required"
    ELSE IF ~q.hasFile \/ Falsy(q.fileUrl) THEN "file.url is required"
    ELSE Undefined

Media_Catch(q, o) ==
    Json(q, 500, FailBody("Failed to send media", <<o.err>>))

\* ---- POST /api/sendMedia of index.js
\* `show_typing && typing_duration > 0`
MediaIdx_TypingWanted(q) ==
    Truthy(q.show_typing) /\ q.typing_duration # <<>> /\ q.typing_duration[1] > 0

MediaIdx_Start(q, wc) ==
    IF wc = "null" THEN Json(q, 503, NotReady)
    ELSE IF Media_Validate(q) # Undefined
    THEN Json(q, 400, ErrorBody(Media_Validate(q)))
    ELSE IF MediaIdx_TypingWanted(q) THEN Call(q, "getChatById")
    ELSE Call(q, "fromUrl")

MediaIdx_Resume(q, o) ==
    IF ~o.ok THEN Media_Catch(q, o)
    ELSE CASE q.pc = "getChatById" ->
                Call([q EXCEPT !.chat = "chat"], "sendStateTyping")
           [] q.pc = "sendStateTyping" ->
                Call([q EXCEPT !.waitTime = q.typing_duration], "setTimeout")
           [] q.pc = "setTimeout" -> Call(q, "fromUrl")
           [] q.pc = "fromUrl" -> Call(q, "sendMessage")
           [] q.pc = "sendMessage" ->
                IF ClearWanted(q)
                THEN Call([q EXCEPT !.msg = o.msg], "clearState")
                ELSE Json([q EXCEPT !.msg = o.msg], 200, SentBody(o.msg))
           [] q.pc = "clearState" -> Json(q, 200, SentBody(q.msg))

\* ---- POST /sendMedia of part_000
MediaJson_TypingWanted(q) == Truthy(q.show_typing)

MediaJson_Ok(q, m) == [SentBody(m) EXCEPT !.session = SessionOf(q)]

MediaJson_Start(q, wc) ==
    IF wc = "null" THEN Json(q, 503, NotReady)
    ELSE IF Media_Validate(q) # Undefined
    THEN Json(q, 400, ErrorBody(Media_Validate(q)))
    ELSE IF MediaJson_TypingWanted(q) THEN Call(q, "getChatById")
    ELSE Call(q, "axiosGet")

\* mutant: the download is started before the typing delay
MediaJson_Resume_DownloadFirst(q, o) ==
    IF ~o.ok THEN Media_Catch(q, o)
    ELSE CASE q.pc = "getChatById" ->
                Call([q EXCEPT !.chat = "chat"], "sendStateTyping")
           [] q.pc = "sendStateTyping" -> Call(q, "axiosGet")
           [] q.pc = "axiosGet" ->
                Call([q EXCEPT !.waitTime = WaitTimeOrDefault(q)], "setTimeout")
           [] q.pc = "setTimeout" -> Call(q, "sendMessage")
           [] q.pc = "sendMessage" ->
                IF ClearWanted(q)
                THEN Call([q EXCEPT !.msg = o.msg], "clearState")
                ELSE Json([q EXCEPT !.msg = o.msg], 200, MediaJson_Ok(q, o.msg))
           [] q.pc = "clearState" -> Json(q, 200, MediaJson_Ok(q, q.msg))

MediaJson_Resume(q, o) ==
    IF ~o.ok THEN Media_Catch(q, o)
    ELSE CASE q.pc = "getChatById" ->
                Call([q EXCEPT !.chat = "chat"], "sendStateTyping")
           [] q.pc = "sendStateTyping" ->
                Call([q EXCEPT !.waitTime = WaitTimeOrDefault(q)], "setTimeout")
           [] q.pc = "setTimeout" -> Call(q, "axiosGet")
           [] q.pc = "axiosGet" -> Call(q, "sendMessage")
           [] q.pc = "sendMessage" ->
                IF ClearWanted(q)
                THEN Call([q EXCEPT !.msg = o.msg], "clearState")
                ELSE Json([q EXCEPT !.msg = o.msg], 200, MediaJson_Ok(q, o.msg))
           [] q.pc = "clearState" -> Json(q, 200, MediaJson_Ok(q, q.msg))

\* ---- POST /api/sendMedia of part_000: primary try, fallback in its catch
\* `Media sending failed: ${mediaError.message}. Fallback also failed: ${fallbackError.message}`
\* mutant: the primary error is dropped from the aggregate
BothFailed_FallbackOnly(mediaError, fallbackError) ==
    <<"Media sending failed: ", fallbackError>>

BothFailed(mediaError, fallbackError) ==
    <<"Media sending failed: ", mediaError,
      ". Fallback also failed: ", fallbackError>>

\* catch (mediaError): the fallback starts with a raw fetch of the same URL
MediaFb_CatchPrimary(q, o) ==
    CallAt([q EXCEPT !.mediaError = o.err], "axiosGet", "fb_axiosGet")

\* catch (fallbackError) rethrows; the outer catch answers
MediaFb_CatchFallback(q, o) ==
    Json(q, 500, FailBody("Failed to send media", BothFailed(q.mediaError, o.err)))

\* after the inner try: chat is never assigned, so no clearState
MediaFb_Finish(q, m) ==
    IF ClearWanted(q)
    THEN Call([q EXCEPT !.msg = m], "clearState")
    ELSE Json([q EXCEPT !.msg = m], 200, SentBody(m))

MediaFb_Start(q, wc) ==
    IF wc = "null" THEN Json(q, 503, NotReady)
    ELSE IF Media_Validate(q) # Undefined
    THEN Json(q, 400, ErrorBody(Media_Validate(q)))
    ELSE Call(q, "fromUrl")

MediaFb_Resume(q, o) ==
    CASE q.pc = "fromUrl" ->
            IF o.ok THEN Call(q, "sendMessage") ELSE MediaFb_CatchPrimary(q, o)
      [] q.pc = "sendMessage" ->
            IF o.ok THEN MediaFb_Finish(q, o.msg) ELSE MediaFb_CatchPrimary(q, o)
      [] q.pc = "fb_axiosGet" ->
            IF o.ok THEN CallAt(q, "sendMessage", "fb_sendMessage")
            ELSE MediaFb_CatchFallback(q, o)
      [] q.pc = "fb_sendMessage" ->
            IF o.ok THEN MediaFb_Finish(q, o.msg) ELSE MediaFb_CatchFallback(q, o)
      [] q.pc = "clearState" ->
            IF o.ok THEN Json(q, 200, SentBody(q.msg)) ELSE Media_Catch(q, o)

\* ------------------------------------------------- POST /api/forwardMessage
\* ---- index.js: no try/catch, no validation, no response
\* a rejected await or a TypeError leaves the async handler's promise rejected
Reject(q) == [q EXCEPT !.pc = "rejected"]

ForwardIdx_Start(q, wc) ==
    IF wc = "null" THEN Json(q, 503, NotReady)
    ELSE Call(q, "getMessageById")

ForwardIdx_Resume(q, o) ==
    CASE q.pc = "getMessageById" ->
            IF ~o.ok \/ o.msg = NoMsg THEN Reject(q)
            ELSE Call([q EXCEPT !.msg = o.msg], "forward")
      [] q.pc = "forward" ->
            IF ~o.ok THEN Reject(q) ELSE [q EXCEPT !.pc = "done"]

\* ---- part_000
ForwardP0_Validate(q) ==
    IF Falsy(q.messageId) \/ Falsy(q.chatId)
    THEN "messageId and chatId are required"
    ELSE Undefined

ForwardP0_Ok(q) ==
    [NoRes EXCEPT !.success = TRUE,
                  !.message = <<"Message forwarded successfully">>,
                  !.originalMessageId = q.messageId,
                  !.targetChatId = q.chatId,
                  !.timestamp = "now",
                  !.messageType = q.msg.type]

\* catch (forwardError)
ForwardP0_CatchForward(q, o) ==
    Json(q, 500, [NoRes EXCEPT !.error = "Failed to forward message",
                               !.details = <<o.err>>,
                               !.messageType = q.msg.type])

ForwardP0_Catch(q, o) ==
    Json(q, 500, FailBody("Failed to forward message", <<o.err>>))

ForwardP0_Start(q, wc) ==
    IF wc = "null" THEN Json(q, 503, NotReady)
    ELSE IF ForwardP0_Validate(q) # Undefined
    THEN Json(q, 400, ErrorBody(ForwardP0_Validate(q)))
    ELSE Call(q, "getMessageById")

ForwardP0_Resume(q, o) ==
    CASE q.pc = "getMessageById" ->
            IF ~o.ok THEN ForwardP0_Catch(q, o)
            ELSE IF o.msg = NoMsg
            THEN Json(q, 404, ErrorBody("Message not found"))
            ELSE Call([q EXCEPT !.msg = o.msg], "forward")
      [] q.pc = "forward" ->
            IF ~o.ok THEN ForwardP0_CatchForward(q, o)
            ELSE Json(q, 200, ForwardP0_Ok(q))

\* ------------------------------------------- POST /startTyping, /stopTyping
Typing_Validate(q) ==
    IF Falsy(q.chatId) THEN "chatId is required" ELSE Undefined

Typing_Start(q, wc) ==
    IF wc = "null" THEN Json(q, 503, NotReady)
    ELSE IF Typing_Validate(q) # Undefined
    THEN Json(q, 400, ErrorBody(Typing_Validate(q)))
    ELSE Call(q, "getChatById")

StartTyping_Resume(q, o) ==
    IF ~o.ok
    THEN Json(q, 500, FailBody("Failed to start typing", <<o.err>>))
    ELSE CASE q.pc = "getChatById" ->
                Call([q EXCEPT !.chat = "chat"], "sendStateTyping")
           [] q.pc = "sendStateTyping" ->
                Json(q, 200, [NoRes EXCEPT !.success = TRUE,
                                           !.message = <<"Typing indicator started">>,
                                           !.chatId = q.chatId])

StopTyping_Resume(q, o) ==
    IF ~o.ok
    THEN Json(q, 500, FailBody("Failed to stop typing", <<o.err>>))
    ELSE CASE q.pc = "getChatById" ->
                Call([q EXCEPT !.chat = "chat"], "clearState")
           [] q.pc = "clearState" ->
                Json(q, 200, [NoRes EXCEPT !.success = TRUE,
                                           !.message = <<"Typing indicator stopped">>,
                                           !.chatId = q.chatId])

\* ------------------------------------------------------------- GET /health
\* mutant: health reports the backend connected regardless of the client
Health_AlwaysConnected(q, wc) ==
    Json(q, 200, [NoRes EXCEPT !.health = "ok", !.whatsapp = "connected",
                               !.timestamp = "now"])

Health(q, wc) ==
    Json(q, 200, [NoRes EXCEPT !.health = "ok",
                               !.whatsapp = IF wc # "null" THEN "connected"
                                            ELSE "disconnected",
                               !.timestamp = "now"])

\* ------------------------------------------------------------------ routing
\* the handler each file registers for a path
Handler(p, path) ==
    CASE path = "/health"             -> "health"
      [] path = "/api/sendMessage"    -> "sendText"
      [] path = "/sendMessage"        -> "sendText"
      [] path = "/sendMedia"          -> "mediaJson"
      [] path = "/api/sendMedia"      ->
            IF p = "index.js" THEN "mediaIdx" ELSE "mediaFb"
      [] path = "/api/forwardMessage" ->
            IF p = "index.js" THEN "forwardIdx" ELSE "forwardP0"
      [] path = "/startTyping"        -> "startTyping"
      [] path = "/stopTyping"         -> "stopTyping"

\* the handler body up to its first await
Start(h, q, wc) ==
    CASE h = "sendText"    -> SendText_Start(q, wc)
      [] h = "mediaIdx"    -> MediaIdx_Start(q, wc)
      [] h = "mediaFb"     -> MediaFb_Start(q, wc)
      [] h = "mediaJson"   -> MediaJson_Start(q, wc)
      [] h = "forwardIdx"  -> ForwardIdx_Start(q, wc)
      [] h = "forwardP0"   -> ForwardP0_Start(q, wc)
      [] h = "startTyping" -> Typing_Start(q, wc)
      [] h = "stopTyping"  -> Typing_Start(q, wc)

\* the handler body from the await that settled with o to the next one
Resume(h, q, o) ==
    CASE h = "sendText"    -> SendText_Resume(q, o)
      [] h = "mediaIdx"    -> MediaIdx_Resume(q, o)
      [] h = "mediaFb"     -> MediaFb_Resume(q, o)
      [] h = "mediaJson"   -> MediaJson_Resume(q, o)
      [] h = "forwardIdx"  -> ForwardIdx_Resume(q, o)
      [] h = "forwardP0"   -> ForwardP0_Resume(q, o)
      [] h = "startTyping" -> StartTyping_Resume(q, o)
      [] h = "stopTyping"  -> StopTyping_Resume(q, o)

\* mutant: the middleware guards /health too
Serve_HealthBehindAuth(p, q, key, wc) ==
    IF ~AuthPasses(q, key) THEN Unauthorized(q)
    ELSE IF Handler(p, q.path) = "health" THEN Health(q, wc)
    ELSE Start(Handler(p, q.path), q, wc)

\* app.post(path, authenticateAPI, handler); /health has no middleware
Serve(p, q, key, wc) ==
    IF Handler(p, q.path) = "health" THEN Health(q, wc)
    ELSE IF ~AuthPasses(q, key) THEN Unauthorized(q)
    ELSE Start(Handler(p, q.path), q, wc)

\* the body fields a handler destructures from req.body
Files == {<<FALSE, Undefined>>} \cup {<<TRUE, u>> : u \in Urls}

\* `session` is read by /sendMessage and /sendMedia of part_000 only
SessionsAt(path) ==
    IF path \in {"/sendMessage", "/sendMedia"} THEN Sessions ELSE {Undefined}

Bodies(h, path) ==
    CASE h = "health" -> {Idle}
      [] h = "sendText" ->
            {[Idle EXCEPT !.chatId = c, !.message = m, !.show_typing = s,
                          !.typing_duration = d, !.session = x]
               : c \in ChatIds, m \in Texts, s \in Flags, d \in Durations,
                 x \in SessionsAt(path)}
      [] h \in {"mediaIdx", "mediaFb", "mediaJson"} ->
            {[Idle EXCEPT !.chatId = c, !.hasFile = f[1], !.fileUrl = f[2],
                          !.show_typing = s, !.typing_duration = d,
                          !.session = x]
               : c \in ChatIds, f \in Files, s \in Flags, d \in Durations,
                 x \in SessionsAt(path)}
      [] h \in {"forwardIdx", "forwardP0"} ->
            {[Idle EXCEPT !.chatId = c, !.messageId = i]
               : c \in ChatIds, i \in MessageIds}
      [] h \in {"startTyping", "stopTyping"} ->
            {[Idle EXCEPT !.chatId = c] : c \in ChatIds}

\* -------------------------------------------------------------- the process
Slots == {"A"}

Init ==
    /\ program \in Programs
    /\ API_KEY \in EnvKeys
    /\ proc = "boot"
    /\ exitCode = <<>>
    /\ listening = FALSE
    /\ clients = 0
    /\ initCalls = 0
    /\ whatsappClient = "null"
    /\ readiness = "UNINITIALIZED"
    /\ readySeen = FALSE
    /\ req = [r \in Slots |-> Idle]
    /\ events = <<>>

\* mutant: the process starts whatever API_KEY holds
Startup_NoCheck ==
    /\ proc = "boot"
    /\ proc' = "running"
    /\ listening' = TRUE
    /\ clients' = clients + 1
    /\ initCalls' = initCalls + 1
    /\ UNCHANGED <<program, API_KEY, exitCode, whatsappClient, readiness,
                   readySeen, req, events>>

\* the module body: the API_KEY check, then `new Client`, app.listen and
\* client.initialize
Startup ==
    /\ proc = "boot"
    /\ IF Falsy(API_KEY)
       THEN /\ proc' = "exited"
            /\ exitCode' = <<1>>
            /\ UNCHANGED <<listening, clients, initCalls>>
       ELSE /\ proc' = "running"
            /\ listening' = TRUE
            /\ clients' = clients + 1
            /\ initCalls' = initCalls + 1
            /\ UNCHANGED exitCode
    /\ UNCHANGED <<program, API_KEY, whatsappClient, readiness, readySeen, req,
                   events>>

\* every lifecycle callback logs; console output is not part of the state
Logs(e) ==
    /\ proc = "running"
    /\ UNCHANGED <<program, API_KEY, proc, exitCode, listening, clients,
                   initCalls, req, events>>

OnQr ==
    /\ Logs("qr")
    /\ readiness' = "AWAITING_PAIRING"
    /\ UNCHANGED <<whatsappClient, readySeen>>

OnReady ==
    /\ Logs("ready")
    /\ whatsappClient' = "client"
    /\ readiness' = "READY"
    /\ readySeen' = TRUE

OnLoadingScreen ==
    /\ Logs("loading_screen")
    /\ UNCHANGED <<whatsappClient, readiness, readySeen>>

OnChangeState ==
    /\ Logs("change_state")
    /\ UNCHANGED <<whatsappClient, readiness, readySeen>>

\* mutant: the authenticated callback publishes the client
OnAuthenticated_OpensGate ==
    /\ Logs("authenticated")
    /\ whatsappClient' = "client"
    /\ UNCHANGED <<readiness, readySeen>>

OnAuthenticated ==
    /\ Logs("authenticated")
    /\ UNCHANGED <<whatsappClient, readiness, readySeen>>

OnAuthFailure ==
    /\ Logs("auth_failure")
    /\ UNCHANGED <<whatsappClient, readiness, readySeen>>

\* mutant: the disconnected callback builds and initializes a new client
OnDisconnected_Reconnect ==
    /\ proc = "running"
    /\ readiness' = "DISCONNECTED"
    /\ clients' = IF clients < 2 THEN clients + 1 ELSE clients
    /\ initCalls' = IF initCalls < 2 THEN initCalls + 1 ELSE initCalls
    /\ UNCHANGED <<program, API_KEY, proc, exitCode, listening,
                   whatsappClient, readySeen, req, events>>

OnDisconnected ==
    /\ Logs("disconnected")
    /\ readiness' = "DISCONNECTED"
    /\ UNCHANGED <<whatsappClient, readySeen>>

OnRemoteSessionSaved ==
    /\ Logs("remote_session_saved")
    /\ UNCHANGED <<whatsappClient, readiness, readySeen>>

\* mutant: a client error withdraws the handle
OnError_ClosesGate ==
    /\ Logs("error")
    /\ whatsappClient' = "null"
    /\ readiness' = "ERRORED"
    /\ UNCHANGED readySeen

OnError ==
    /\ Logs("error")
    /\ readiness' = "ERRORED"
    /\ UNCHANGED <<whatsappClient, readySeen>>

\* client.initialize() rejected: the .catch logs
OnInitializeFailed ==
    /\ Logs("initialize_failed")
    /\ UNCHANGED <<whatsappClient, readiness, readySeen>>

\* the calls request r made in the step that took it from `old` to `new`
Issued(r, old, new) ==
    [i \in 1..(Len(new.calls) - Len(old.calls)) |->
        <<r, new.calls[Len(old.calls) + i]>>]

\* the listener is up and slot r is free
Accepting(r) ==
    /\ proc = "running"
    /\ listening
    /\ req[r].pc = "idle"

\* the request `b` for `path` with keys h, k arrives in slot r: middleware and
\* handler run up to the first await
Arrive(r, path, h, k, b) ==
    /\ req' = [req EXCEPT ![r] =
                 Serve(program,
                       [b EXCEPT !.path = path, !.hdr = h, !.qry = k,
                                 !.atReadiness = readiness,
                                 !.atClient = whatsappClient,
                                 !.atReadySeen = readySeen],
                       API_KEY, whatsappClient)]
    /\ events' = events \o <<<<r, "arrive">>>> \o Issued(r, req[r], req'[r])
    /\ UNCHANGED <<program, API_KEY, proc, exitCode, listening, clients, initCalls,
                   whatsappClient, readiness, readySeen>>

\* a request arrives, whatever its path, keys and body
Receive(r) ==
    /\ Accepting(r)
    /\ \E path \in Routes(program), h \in KeyVals, k \in KeyVals :
         \E b \in Bodies(Handler(program, path), path) :
            Arrive(r, path, h, k, b)

Suspended(q) == q.pc \notin {"idle", "done", "rejected", "abandoned"}

\* the call a suspended handler awaits
Pending(q) == q.calls[Len(q.calls)]

\* when request r did `what` ("arrive" or a backend call) first: its position
\* in events, 0 if it has not
Pos(r, what) ==
    IF \E i \in 1..Len(events) : events[i] = <<r, what>>
    THEN CHOOSE i \in 1..Len(events) :
            /\ events[i] = <<r, what>>
            /\ \A j \in 1..(i-1) : events[j] # <<r, what>>
    ELSE 0

\* mutant: requests are served one after the other, in arrival order
Settle_Serialized(r) ==
    /\ proc = "running"
    /\ Suspended(req[r])
    /\ \A s \in DOMAIN req \ {r} :
          ~(Suspended(req[s]) /\ Pos(s, "arrive") < Pos(r, "arrive"))
    /\ \E o \in Outcomes(Pending(req[r])) :
         req' = [req EXCEPT ![r] =
                   Resume(Handler(program, req[r].path),
                          [req[r] EXCEPT
                              !.errs = Append(@, o.err),
                              !.got = IF o.ok /\ o.msg # NoMsg
                                      THEN o.msg ELSE @], o)]
    /\ events' = events \o Issued(r, req[r], req'[r])
    /\ UNCHANGED <<program, API_KEY, proc, exitCode, listening, clients, initCalls,
                   whatsappClient, readiness, readySeen>>

\* the awaited call settles and the handler runs on to its next await
Settle(r) ==
    /\ proc = "running"
    /\ Suspended(req[r])
    /\ \E o \in Outcomes(Pending(req[r])) :
         req' = [req EXCEPT ![r] =
                   Resume(Handler(program, req[r].path),
                          [req[r] EXCEPT
                              !.errs = Append(@, o.err),
                              !.got = IF o.ok /\ o.msg # NoMsg
                                      THEN o.msg ELSE @], o)]
    /\ events' = events \o Issued(r, req[r], req'[r])
    /\ UNCHANGED <<program, API_KEY, proc, exitCode, listening, clients, initCalls,
                   whatsappClient, readiness, readySeen>>

\* what becomes of a rejected handler promise nobody catches: Express 4 drops
\* it and Node either ignores it or ends the process; Express 5 answers 500
Fates == {"ignored", "crash", "express5"}

UnhandledRejection(r) ==
    /\ proc = "running"
    /\ req[r].pc = "rejected"
    /\ \E fate \in Fates :
         /\ req' = [req EXCEPT ![r] =
                      IF fate = "express5"
                      THEN [Json(@, 500, NoRes) EXCEPT !.pc = "abandoned"]
                      ELSE [@ EXCEPT !.pc = "abandoned"]]
         /\ proc' = IF fate = "crash" THEN "exited" ELSE proc
         /\ exitCode' = IF fate = "crash" THEN <<1>> ELSE exitCode
    /\ UNCHANGED <<program, API_KEY, listening, clients, initCalls,
                   whatsappClient, readiness, readySeen, events>>

Lifecycle ==
    \/ OnQr \/ OnReady \/ OnLoadingScreen \/ OnChangeState
    \/ OnAuthenticated \/ OnAuthFailure \/ OnDisconnected
    \/ OnRemoteSessionSaved \/ OnError \/ OnInitializeFailed

Next ==
    \/ Startup
    \/ Lifecycle
    \/ \E r \in Slots : Receive(r) \/ Settle(r) \/ UnhandledRejection(r)

Spec == Init /\ [][Next]_vars

\* ------------------------------------------------- two requests in flight
\* Node serves a request while the handlers of others are suspended at an
\* await.  The second specification runs the same process with two slots;
\* both requests are well-formed sends with show_typing to the same chat, and
\* the backend, once ready, stays connected.
ConcSlots == {"A", "B"}

\* the send routes of the running file
ConcPaths ==
    {"/sendMessage", "/api/sendMessage", "/sendMedia", "/api/sendMedia"}
        \cap Routes(program)

ConcBody(path) ==
    IF path \in {"/sendMedia", "/api/sendMedia"}
    THEN [Idle EXCEPT !.chatId = "c1", !.hasFile = TRUE, !.fileUrl = "u",
                      !.show_typing = "true"]
    ELSE [Idle EXCEPT !.chatId = "c1", !.message = "hello",
                      !.show_typing = "true"]

InitConc ==
    /\ program \in Programs
    /\ API_KEY \in EnvKeys
    /\ proc = "boot"
    /\ exitCode = <<>>
    /\ listening = FALSE
    /\ clients = 0
    /\ initCalls = 0
    /\ whatsappClient = "null"
    /\ readiness = "UNINITIALIZED"
    /\ readySeen = FALSE
    /\ req = [r \in ConcSlots |-> Idle]
    /\ events = <<>>

ReceiveSend(r) ==
    /\ Accepting(r)
    /\ \E path \in ConcPaths :
         Arrive(r, path, "secret", Undefined, ConcBody(path))

NextConc ==
    \/ Startup
    \/ OnReady
    \/ \E r \in ConcSlots : ReceiveSend(r) \/ Settle(r)

SpecConc == InitConc /\ [][NextConc]_vars

\* ================================================================= claims
AuthPaths   == {"/sendMessage", "/api/sendMessage", "/sendMedia",
                "/api/sendMedia", "/api/forwardMessage",
                "/startTyping", "/stopTyping"}
TextPaths   == {"/sendMessage", "/api/sendMessage"}
MediaPaths  == {"/sendMedia", "/api/sendMedia"}
SendPaths   == TextPaths \cup MediaPaths
TypingPaths == {"/startTyping", "/stopTyping"}

Arrived(q)  == q.pc # "idle"
Made(q, op) == \E i \in 1..Len(q.calls) : q.calls[i] = op
Times(q, op) == Cardinality({i \in 1..Len(q.calls) : q.calls[i] = op})
Absent(v)   == v \in {Undefined, ""}

\* no key the caller supplied is the configured secret
NoKeyMatches(q) == q.hdr # API_KEY /\ q.qry # API_KEY
\* the caller supplied the configured secret, in the header or, with no
\* header, in the query
KeyMatches(q) == q.hdr = API_KEY \/ (Absent(q.hdr) /\ q.qry = API_KEY)

\* the fields the endpoint requires are not all there
FieldsMissing(q) ==
    \/ Absent(q.chatId)
    \/ q.path \in TextPaths /\ Absent(q.message)
    \/ q.path \in MediaPaths /\ (~q.hasFile \/ Absent(q.fileUrl))
    \/ q.path = "/api/forwardMessage" /\ Absent(q.messageId)

\* C1: a request to an authenticated endpoint whose key is missing or is not
\* the configured API_KEY is answered 401, once, and no backend operation is
\* ever invoked for it, whatever the service state and the body.
C1_BadKeyIs401 ==
    \A r \in Slots :
        (Arrived(req[r]) /\ req[r].path \in AuthPaths /\ NoKeyMatches(req[r]))
        => /\ req[r].res.status = 401
           /\ req[r].nresp = 1
           /\ req[r].calls = <<>>

\* a wrong key met a ready service with a complete sendMessage body
C1_Witness ==
    \E r \in Slots :
        /\ req[r].path \in TextPaths
        /\ req[r].hdr = "wrong" /\ req[r].qry = Undefined
        /\ req[r].atClient = "client"
        /\ req[r].chatId = "c1" /\ req[r].message = "hello"
        /\ req[r].show_typing = "true"
        /\ req[r].res.status = 401
        /\ whatsappClient = "client"

\* C2: an authenticated request that arrives while readiness is not READY
\* (before ready, or after a disconnect or a client error that follows ready)
\* is answered 503 and never reaches the backend.
C2_NotReadyIs503 ==
    \A r \in Slots :
        (/\ Arrived(req[r]) /\ req[r].path \in AuthPaths
         /\ KeyMatches(req[r])
         /\ \/ req[r].atClient = "null"
            \/ req[r].atReadiness \in {"DISCONNECTED", "ERRORED"})
        => /\ req[r].res.status = 503
           /\ req[r].calls = <<>>

C4_SendMessageValidation ==
    \A r \in Slots :
        (/\ Arrived(req[r]) /\ req[r].path \in TextPaths
         /\ KeyMatches(req[r]) /\ req[r].atClient = "client")
        => /\ Absent(req[r].chatId)
                => /\ req[r].res.status = 400
                   /\ req[r].res.error = "chatId is required"
                   /\ req[r].calls = <<>>
           /\ (~Absent(req[r].chatId) /\ Absent(req[r].message))
                => /\ req[r].res.status = 400
                   /\ req[r].res.error = "message is required"
                   /\ req[r].calls = <<>>

\* chatId given, message empty
C4_Witness ==
    \E r \in Slots :
        /\ req[r].path \in TextPaths
        /\ KeyMatches(req[r]) /\ req[r].atClient = "client"
        /\ req[r].chatId = "c1" /\ req[r].message = ""
        /\ req[r].res.status = 400
        /\ req[r].res.error = "message is required"

\* the settled calls of a request that were rejected
Failures(q) == {i \in 1..Len(q.errs) : q.errs[i] # Undefined}
\* the handler ran past its gates and is over
Dispatched(q) == q.pc = "done" /\ q.calls # <<>>
\* the endpoint whose catch block runs a second strategy
HasFallback(q) == program = "part_000" /\ q.path = "/api/sendMedia"

\* 200 {success:true, messageId, timestamp} of the message the backend
\* returned; for the typing endpoints {success:true, chatId}
SuccessReported(q) ==
    /\ q.res.status = 200
    /\ q.res.success
    /\ q.path \in SendPaths
          => (q.got # NoMsg /\ q.res.messageId = q.got.id
              /\ q.res.timestamp = q.got.timestamp)
    /\ q.path \in TypingPaths => q.res.chatId = q.chatId

\* 500 {error, message}, the message being the rejection's text
FailureReported(q) ==
    /\ q.res.status = 500
    /\ q.res.error # Undefined
    /\ \E i \in Failures(q) : q.res.message = <<q.errs[i]>>

C6_ExactlyOneResponse ==
    \A r \in Slots :
        /\ req[r].nresp <= 1
        /\ req[r].pc \in {"done", "abandoned"} => req[r].nresp = 1

\* C7: within one request sendMessage is invoked at most once; after a
\* sendMessage that failed there is no second send.
C7_SendAtMostOnce ==
    \A r \in Slots : Times(req[r], "sendMessage") <= 1

\* C8: in a send request whose composing signal was issued, clearState is
\* issued before the response, on the success and on the failure paths.
C8_ClearedBeforeResponse ==
    \A r \in Slots :
        (req[r].path \in SendPaths /\ req[r].nresp >= 1)
        => \A i \in 1..Len(req[r].errs) :
              (req[r].calls[i] = "sendStateTyping" /\ req[r].errs[i] = Undefined)
              => \E j \in (i+1)..Len(req[r].calls) :
                    req[r].calls[j] = "clearState"

\* C9: in a send endpoint clearState is invoked only after sendStateTyping
\* was invoked in the same request; with show_typing false or absent none of
\* getChatById, sendStateTyping, clearState is invoked.
C9_ClearOnlyIfSet ==
    \A r \in Slots :
        req[r].path \in SendPaths
        => /\ \A i \in 1..Len(req[r].calls) :
                req[r].calls[i] = "clearState"
                => \E j \in 1..(i-1) : req[r].calls[j] = "sendStateTyping"
           /\ req[r].show_typing # "true"
                => /\ ~Made(req[r], "getChatById")
                   /\ ~Made(req[r], "sendStateTyping")
                   /\ ~Made(req[r], "clearState")

\* a send without show_typing that went through: only the send was invoked
C9_Witness ==
    \E r \in Slots :
        /\ req[r].path \in TextPaths
        /\ req[r].show_typing = "false"
        /\ req[r].res.status = 200
        /\ req[r].calls = <<"sendMessage">>

\* C10: with show_typing true and a typing_duration of 0 or less the presence
\* bracket is skipped: no sendStateTyping, no delay, no clearState.
C10_NonPositiveDurationSkips ==
    \A r \in Slots :
        (/\ req[r].path \in SendPaths
         /\ req[r].show_typing = "true"
         /\ req[r].typing_duration # <<>>
         /\ req[r].typing_duration[1] <= 0)
        => /\ ~Made(req[r], "sendStateTyping")
           /\ ~Made(req[r], "setTimeout")
           /\ ~Made(req[r], "clearState")

\* position of the first call of `op`, 0 when there is none
First(q, op) ==
    IF Made(q, op)
    THEN CHOOSE i \in 1..Len(q.calls) :
            q.calls[i] = op /\ \A j \in 1..(i-1) : q.calls[j] # op
    ELSE 0

\* C11: with show_typing true and typing_duration absent the composing signal
\* is issued and held for the default 2000 ms before the send; with a positive
\* typing_duration it is held for exactly that long; on every send endpoint.
C11_TypingHeldForDuration ==
    \A r \in Slots :
        (/\ req[r].path \in SendPaths
         /\ req[r].calls # <<>>
         /\ req[r].show_typing = "true"
         /\ \/ req[r].typing_duration = <<>>
            \/ req[r].typing_duration[1] > 0)
        => /\ req[r].calls[1] = "getChatById"
           /\ Made(req[r], "setTimeout")
                => req[r].waitTime = IF req[r].typing_duration = <<>>
                                     THEN <<2000>>
                                     ELSE req[r].typing_duration
           /\ Made(req[r], "sendMessage")
                => /\ 0 < First(req[r], "sendStateTyping")
                   /\ First(req[r], "sendStateTyping") < First(req[r], "setTimeout")
                   /\ First(req[r], "setTimeout") < First(req[r], "sendMessage")

\* C12: on a sendMedia request by URL past the gates, when only the primary
\* fetch (MessageMedia.fromUrl) fails, the raw bytes are fetched and sent and
\* the response is 200 with the sent message's id and timestamp.
C12_PrimaryFailureAloneIs200 ==
    \A r \in Slots :
        (/\ req[r].path \in MediaPaths
         /\ Dispatched(req[r])
         /\ Made(req[r], "fromUrl")
         /\ Failures(req[r]) = {First(req[r], "fromUrl")})
        => /\ SuccessReported(req[r])
           /\ First(req[r], "fromUrl") < First(req[r], "axiosGet")
           /\ First(req[r], "axiosGet") < First(req[r], "sendMessage")

\* C13: on a sendMedia request by URL, when the primary strategy and the
\* fallback strategy both fail, the one response is 500 and its message
\* contains the primary error's text and the fallback error's text.
C13_BothFailedIs500WithBoth ==
    \A r \in Slots :
        (/\ req[r].path \in MediaPaths
         /\ Dispatched(req[r])
         /\ Cardinality(Failures(req[r])) >= 2)
        => /\ req[r].res.status = 500
           /\ ~req[r].res.success
           /\ req[r].nresp = 1
           /\ \E i, j \in Failures(req[r]) :
                /\ i < j
                /\ \E a, b \in 1..Len(req[r].res.message) :
                     /\ a < b
                     /\ req[r].res.message[a] = req[r].errs[i]
                     /\ req[r].res.message[b] = req[r].errs[j]

\* the primary fetch failed with e1, the fallback fetch with e2
C13_Witness ==
    \E r \in Slots :
        /\ req[r].path = "/api/sendMedia"
        /\ req[r].calls = <<"fromUrl", "axiosGet">>
        /\ req[r].errs = <<"e1", "e2">>
        /\ req[r].res.status = 500

\* the lookup of a forward request found a message
LookupFound(q) ==
    /\ q.path = "/api/forwardMessage"
    /\ Len(q.errs) >= 1 /\ q.calls[1] = "getMessageById"
    /\ q.errs[1] = Undefined /\ q.got # NoMsg
\* ... found nothing
LookupMissed(q) ==
    /\ q.path = "/api/forwardMessage"
    /\ Len(q.errs) >= 1 /\ q.calls[1] = "getMessageById"
    /\ q.errs[1] = Undefined /\ q.got = NoMsg

\* C14: a forward request past the gates whose lookup succeeded invokes
\* forward exactly once and sendMessage never; when the forward succeeds the
\* response is 200 {success:true, originalMessageId, targetChatId,
\* messageType} echoing the request and the original's type, with no new id.
C14_ForwardOnceAndEcho ==
    \A r \in Slots :
        LookupFound(req[r])
        => /\ Times(req[r], "forward") = 1
           /\ ~Made(req[r], "sendMessage")
           /\ (Len(req[r].errs) = 2 /\ req[r].errs[2] = Undefined)
                => /\ req[r].res.status = 200
                   /\ req[r].res.success
                   /\ req[r].res.originalMessageId = req[r].messageId
                   /\ req[r].res.targetChatId = req[r].chatId
                   /\ req[r].res.messageType = req[r].got.type
                   /\ req[r].res.messageId = Undefined

\* C15: a forward request past the gates whose lookup returns no message is
\* answered 404 and forward is never invoked.
C15_LookupMissIs404 ==
    \A r \in Slots :
        LookupMissed(req[r])
        => /\ req[r].res.status = 404
           /\ ~Made(req[r], "forward")

\* C16: GET /health always answers status "ok"; its whatsapp field is
\* "disconnected" as long as no ready event has been received (after a pairing
\* challenge and after authenticated too) and "connected" once one has.
C16_HealthReportsGate ==
    \A r \in Slots :
        (req[r].path = "/health" /\ Arrived(req[r]))
        => /\ req[r].res.status = 200
           /\ req[r].nresp = 1
           /\ req[r].res.health = "ok"
           /\ req[r].res.whatsapp = IF req[r].atReadySeen THEN "connected"
                                    ELSE "disconnected"

\* health asked after the pairing challenge, before ready
C16_Witness ==
    \E r \in Slots :
        /\ req[r].path = "/health"
        /\ req[r].atReadiness = "AWAITING_PAIRING"
        /\ ~req[r].atReadySeen
        /\ req[r].res.whatsapp = "disconnected"

\* C17: the published client handle is non-null exactly when readiness is
\* READY or DISCONNECTED; it is null in UNINITIALIZED, AWAITING_PAIRING and
\* ERRORED, also when the error follows ready.
C17_ClientIffReadyOrDisconnected ==
    (whatsappClient # "null") <=> (readiness \in {"READY", "DISCONNECTED"})

\* C18: the gate state changes only in a step of the ready callback: no
\* request handler and no other lifecycle callback (qr, authenticated,
\* auth_failure, loading_screen, change_state, remote_session_saved) opens or
\* closes it, and a keyed request that arrives before ready is answered 503.
C18_OnlyReadyOpensGate ==
    /\ [][whatsappClient' # whatsappClient => OnReady]_vars
    /\ [](\A r \in Slots :
            (/\ Arrived(req[r])
             /\ req[r].path \in AuthPaths
             /\ KeyMatches(req[r])
             /\ ~req[r].atReadySeen)
            => /\ req[r].atClient = "null"
               /\ req[r].res.status = 503
               /\ req[r].calls = <<>>)

\* a keyed send arriving after the pairing challenge, before ready
C18_Witness ==
    \E r \in Slots :
        /\ req[r].path \in SendPaths
        /\ KeyMatches(req[r])
        /\ req[r].atReadiness = "AWAITING_PAIRING"
        /\ ~req[r].atReadySeen
        /\ req[r].res.status = 503

\* C19: one client is constructed and client.initialize() is invoked exactly
\* once, at startup; no disconnect, auth failure, error or failed initialize
\* leads to another initialize or another client.
C19_InitializeOnce ==
    /\ initCalls <= 1 /\ clients <= 1
    /\ proc = "running" => initCalls = 1 /\ clients = 1

\* the connection was lost after ready; still one initialize
C19_Witness ==
    /\ readySeen
    /\ readiness = "DISCONNECTED"
    /\ initCalls = 1

\* C20: with API_KEY missing the process exits with a non-zero code before
\* the listener is started and before a client is constructed or initialized;
\* no request is ever accepted without a configured secret.
C20_NoKeyNoStart ==
    Falsy(API_KEY)
    => /\ proc \in {"boot", "exited"}
       /\ proc = "exited" => exitCode # <<>> /\ exitCode[1] # 0
       /\ ~listening
       /\ clients = 0 /\ initCalls = 0
       /\ \A r \in Slots : ~Arrived(req[r])

\* the process has aborted for lack of a key
C20_Witness ==
    /\ Falsy(API_KEY)
    /\ proc = "exited"
    /\ exitCode = <<1>>

\* the `error` text of a send endpoint's catch block
SendFailureError(path) ==
    IF path \in TextPaths THEN "Failed to send message"
    ELSE "Failed to send media"

\* C21: in a send request a failure of getChatById or sendStateTyping is
\* answered 500 and sendMessage is never invoked; a failure of clearState
\* after sendMessage succeeded is answered 500 with the endpoint's failure
\* error, not 200, although the message was sent.
C21_PresenceFailureIs500 ==
    \A r \in Slots :
        req[r].path \in SendPaths
        => \A i \in Failures(req[r]) :
             /\ req[r].calls[i] \in {"getChatById", "sendStateTyping"}
                  => /\ req[r].res.status = 500
                     /\ req[r].nresp = 1
                     /\ req[r].res.error = SendFailureError(req[r].path)
                     /\ req[r].res.message = <<req[r].errs[i]>>
                     /\ ~Made(req[r], "sendMessage")
             /\ req[r].calls[i] = "clearState"
                  => /\ req[r].got # NoMsg
                     /\ req[r].res.status = 500
                     /\ req[r].nresp = 1
                     /\ ~req[r].res.success
                     /\ req[r].res.error = SendFailureError(req[r].path)
                     /\ req[r].res.message = <<req[r].errs[i]>>
                     /\ req[r].res.messageId = Undefined

\* the message was sent, then clearState was rejected
C21_Witness ==
    \E r \in Slots :
        /\ req[r].path \in TextPaths
        /\ req[r].calls = <<"getChatById", "sendStateTyping", "setTimeout",
                            "sendMessage", "clearState">>
        /\ req[r].errs = <<Undefined, Undefined, Undefined, Undefined, "e2">>
        /\ req[r].got # NoMsg
        /\ req[r].res.status = 500

C23_NoAdmissionControl ==
    \A r \in DOMAIN req :
        proc = "running"
        => /\ (listening /\ req[r].pc = "idle") => ENABLED ReceiveSend(r)
           /\ Suspended(req[r]) => ENABLED Settle(r)

\* B arrived first, yet A's send reached the backend first, and A's
\* clearState was issued while B was holding its composing indicator:
\* after B's sendStateTyping, before B's sendMessage
C23_Witness ==
    /\ 0 < Pos("B", "arrive")
    /\ Pos("B", "arrive") < Pos("A", "arrive")
    /\ 0 < Pos("B", "sendStateTyping")
    /\ Pos("B", "sendStateTyping") < Pos("A", "clearState")
    /\ Pos("A", "clearState") < Pos("B", "sendMessage")
    /\ Pos("A", "sendMessage") < Pos("B", "sendMessage")

\* the media download of a sendMedia endpoint
Downloads == {"fromUrl", "axiosGet"}

\* C24: a send request that issued the composing signal and was answered 200
\* made its calls in the order getChatById, sendStateTyping, typing delay,
\* (media download, on sendMedia,) sendMessage, clearState, each completed
\* before the next, and was answered only after clearState completed; no
\* sendMessage is invoked before the typing delay has elapsed.
C24_BracketOrder ==
    \A r \in Slots :
        (req[r].path \in SendPaths /\ Made(req[r], "sendStateTyping"))
        => /\ Made(req[r], "sendMessage")
                => /\ 0 < First(req[r], "setTimeout")
                   /\ First(req[r], "setTimeout") < First(req[r], "sendMessage")
                   /\ First(req[r], "setTimeout") <= Len(req[r].errs)
                   /\ req[r].errs[First(req[r], "setTimeout")] = Undefined
           /\ req[r].res.status = 200
                => /\ \/ /\ req[r].path \in TextPaths
                         /\ req[r].calls = <<"getChatById", "sendStateTyping",
                                             "setTimeout", "sendMessage",
                                             "clearState">>
                      \/ /\ req[r].path \in MediaPaths
                         /\ \E d \in Downloads :
                              req[r].calls = <<"getChatById", "sendStateTyping",
                                               "setTimeout", d, "sendMessage",
                                               "clearState">>
                   /\ Len(req[r].errs) = Len(req[r].calls)
                   /\ Failures(req[r]) = {}

\* a media send with the bracket went through
C24_Witness ==
    \E r \in Slots :
        /\ req[r].path \in MediaPaths
        /\ Made(req[r], "sendStateTyping")
        /\ Made(req[r], "clearState")
        /\ req[r].res.status = 200
        /\ Len(req[r].calls) = 6

\* C25: the gate is latched: whatsappClient is never reset, so once a ready
\* notification was delivered - whatever disconnected, auth_failure, error or
\* ready notifications follow - /health reports "connected", no endpoint
\* answers 503, a well-formed keyed request invokes the backend, and a handler
\* in flight goes on with its calls.
C25_ReadinessLatched ==
    /\ [][whatsappClient = "client" => whatsappClient' = "client"]_vars
    /\ [](readySeen => whatsappClient = "client")
    /\ [](\A r \in Slots :
            /\ (Arrived(req[r]) /\ req[r].atReadySeen)
                 => /\ req[r].path = "/health"
                         => req[r].res.whatsapp = "connected"
                    /\ req[r].res.status # 503
                    /\ (/\ req[r].path \in AuthPaths
                        /\ KeyMatches(req[r])
                        /\ ~FieldsMissing(req[r]))
                         => req[r].calls # <<>>
            /\ (proc = "running" /\ Suspended(req[r])) => ENABLED Settle(r))

\* a send that arrived after ready and a disconnect went through
C25_Witness ==
    \E r \in Slots :
        /\ req[r].path \in SendPaths
        /\ req[r].atReadiness = "DISCONNECTED"
        /\ req[r].atReadySeen
        /\ Made(req[r], "sendMessage")
        /\ req[r].res.status = 200

\* the sendMessage calls of a request that returned a message
SendsReturned(q) ==
    {i \in 1..Len(q.errs) : q.calls[i] = "sendMessage" /\ q.errs[i] = Undefined}

\* C26: a send endpoint answers 200 {success:true, messageId, timestamp} only
\* after exactly one sendMessage call of that request returned a message, and
\* the id and timestamp are those of that message, whatever another request
\* in flight was given.
C26_SuccessOnlyAfterOwnSend ==
    \A r \in DOMAIN req :
        (/\ req[r].path \in SendPaths
         /\ req[r].res.status = 200 \/ req[r].res.success)
        => /\ req[r].res.status = 200 /\ req[r].res.success
           /\ Cardinality(SendsReturned(req[r])) = 1
           /\ req[r].got # NoMsg
           /\ req[r].res.messageId = req[r].got.id
           /\ req[r].res.timestamp = req[r].got.timestamp

\* two sends in flight at once (B's was issued before A's returned); the
\* backend gave A the message m1 and B the message m2, and each answer names
\* its own
C26_Witness ==
    /\ 0 < Pos("A", "sendMessage")
    /\ Pos("A", "sendMessage") < Pos("B", "sendMessage")
    /\ Pos("B", "sendMessage") < Pos("A", "clearState")
    /\ req["A"].got.id = "m1" /\ req["B"].got.id = "m2"
    /\ req["A"].res.status = 200 /\ req["A"].res.messageId = "m1"
    /\ req["B"].res.status = 200 /\ req["B"].res.messageId = "m2"

\* the one key the caller is judged by: the X-API-Key header when present
\* and non-empty, else the api_key query parameter
Candidate(q) == IF Absent(q.hdr) THEN q.qry ELSE q.hdr

\* C27: the auth gate compares one candidate key, the header when present and
\* non-empty, otherwise the query parameter: the request is rejected with 401
\* exactly when that candidate is not the configured secret, so a wrong
\* header is 401 even beside a correct query key.
C27_OneCandidateKey ==
    \A r \in Slots :
        (Arrived(req[r]) /\ req[r].path \in AuthPaths)
        => /\ (req[r].res.status = 401) <=> (Candidate(req[r]) # API_KEY)
           /\ (req[r].hdr = "wrong" /\ req[r].qry = API_KEY)
                => /\ req[r].res.status = 401
                   /\ req[r].calls = <<>>

\* a wrong header beside the right query key
C27_Witness ==
    \E r \in Slots :
        /\ req[r].path \in AuthPaths
        /\ req[r].hdr = "wrong"
        /\ req[r].qry = "secret" /\ API_KEY = "secret"
        /\ req[r].atClient = "client"
        /\ req[r].res.status = 401

====
